---- MODULE Spec2Model ----
(***************************************************************************)
(* Model of the pylint-datetime checker (src/src/pylint_datetime).         *)
(*                                                                         *)
(* DatetimeChecker has two visitor callbacks, visit_call and visit_assign, *)
(* which hand diagnostics to the linter through add_message.  A syntax     *)
(* node is a record; a callback is an operator from the messages recorded  *)
(* so far and the node to the outcome of the invocation ("ok" or the name  *)
(* of the exception that leaves the callback) and the messages recorded    *)
(* when it ends.                                                           *)
(***************************************************************************)
EXTENDS Naturals, Sequences, FiniteSets

VARIABLES
    block,      \* the statement sequence (one lexical block) under analysis
    index,      \* position in block of the statement the last callback was given
    visitor,    \* the last callback invoked: "none", "visit_call", "visit_assign"
    messages,   \* the messages the linter has recorded (add_message's sink)
    outcome,    \* how the last callback ended: "ok" or an exception name
    pass,       \* tree walk only: 1, 2 (the pass under way) or 3 (both done)
    step,       \* tree walk only: next entry of the visiting schedule
    mark        \* tree walk only: Len(messages) when pass 1 ended

vars == <<block, index, visitor, messages, outcome, pass, step, mark>>

----------------------------------------------------------------------------
(* Bounds of the model. *)

\* longest positional argument list of a call
MaxArgs == 2
\* longest keyword argument list of a call
MaxKeywords == 2
\* longest block of statements the tree walk is run over
MaxStmts == 2

----------------------------------------------------------------------------
(* Syntax nodes (astroid), as far as the checker reads them. *)

NoName == "-"

\* Call.func: a Name (bare callee, field name), an Attribute (dotted callee,
\* field attrname) or any other expression (a subscript, a call, a lambda).
\* Field name holds Name.name or Attribute.attrname; field expr holds the
\* name of the variable an Attribute callee is looked up on (its receiver).
FuncOn(kind, name, expr) == [kind |-> kind, name |-> name, expr |-> expr]

\* a callee looked up on the module or class datetime, if it is dotted
Func(kind, name) ==
    FuncOn(kind, name, IF kind = "Attribute" THEN "datetime" ELSE NoName)
NoFunc == Func("None", NoName)

\* An expression node.  args is the sequence of the kinds of the positional
\* argument nodes, keywords the sequence of Keyword.arg of the keyword
\* arguments: the checker reads nothing else of them.
Expr(kind, attrname, func, args, keywords) ==
    [kind |-> kind, attrname |-> attrname, func |-> func,
     args |-> args, keywords |-> keywords]

Call(func, args, keywords) == Expr("Call", NoName, func, args, keywords)
Attribute(attrname) == Expr("Attribute", attrname, NoFunc, <<>>, <<>>)
Const == Expr("Const", NoName, NoFunc, <<>>, <<>>)
\* a bare name used as an expression
Name == Expr("Name", NoName, NoFunc, <<>>, <<>>)
\* Python's None where a statement has a value field but no value (return)
NoValue == Expr("None", NoName, NoFunc, <<>>, <<>>)

\* Sequences over S of length at most n
SeqUpTo(S, n) == UNION {[1..k -> S] : k \in 0..n}

ArgKinds == {"Const", "Attribute"}
KeywordNames == {"tz", "tzinfo", "seconds"}
ArgLists == SeqUpTo(ArgKinds, MaxArgs)
KeywordLists == SeqUpTo(KeywordNames, MaxKeywords)

\* the names the three call rules match, and some they do not
CallNames ==
    {"timedelta", "datetime", "now", "fromtimestamp", "astimezone",
     "today", "utcnow", "utcfromtimestamp", "utctimetuple", "time",
     "replace", "fromordinal", "fromisocalendar", "strptime"}

\* The parser builds Call.func from expression nodes only: a FunctionDef is
\* a statement and is never the callee of a parsed call.
Funcs ==
    {Func(k, n) : k \in {"Name", "Attribute"}, n \in CallNames}
        \cup {Func("Subscript", NoName)}

Calls == {Call(f, a, k) : f \in Funcs, a \in ArgLists, k \in KeywordLists}

----------------------------------------------------------------------------
(* Diagnostics. *)

MsgIds ==
    {"timedelta-no-keyword-args", "timezone-no-argument",
     "naive-datetime-call", "naive-datetime-no-timezone"}

\* self.add_message(msgid, node=node, args=args): the linter records one
\* message per call
add_message(msgs, msgid, node, args) ==
    Append(msgs, [msg_id |-> msgid, node |-> node, args |-> args])

\* the result of one callback invocation
Return(msgs) == [outcome |-> "ok", msgs |-> msgs]
Raise(exc, msgs) == [outcome |-> exc, msgs |-> msgs]

\* for _ in items: self.add_message(msgid, node=node, args=args)
RECURSIVE add_message_each(_, _, _, _, _)
add_message_each(msgs, items, msgid, node, args) ==
    IF items = <<>> THEN msgs
    ELSE add_message_each(add_message(msgs, msgid, node, args),
                          Tail(items), msgid, node, args)

\* any(isinstance(arg, astroid.Keyword) and arg.arg in names for arg in keywords)
any_keyword(keywords, names) ==
    \E i \in 1..Len(keywords) : keywords[i] \in names

\* any(isinstance(arg, astroid.Attribute) for arg in args)
any_attribute(args) ==
    \E i \in 1..Len(args) : args[i] = "Attribute"

----------------------------------------------------------------------------
(* The call rules. *)

\* A variant of timedelta_with_keywords with a memory: a call that already
\* has the message recorded is not reported again.
timedelta_with_keywords_once(msgs, node, name) ==
    IF name = "timedelta"
    THEN LET seen == \E i \in 1..Len(msgs) :
                        /\ msgs[i].msg_id = "timedelta-no-keyword-args"
                        /\ msgs[i].node = node
             m1 == add_message_each(msgs, node.args,
                                    "timedelta-no-keyword-args", node, <<>>)
         IN IF seen THEN msgs
            ELSE IF node.args = <<>> /\ node.keywords = <<>>
            THEN add_message(m1, "timedelta-no-keyword-args", node, <<>>)
            ELSE m1
    ELSE msgs

timedelta_with_keywords(msgs, node, name) ==
    IF name = "timedelta"
    THEN LET m1 == add_message_each(msgs, node.args,
                                    "timedelta-no-keyword-args", node, <<>>)
         IN IF node.args = <<>> /\ node.keywords = <<>>
            THEN add_message(m1, "timedelta-no-keyword-args", node, <<>>)
            ELSE m1
    ELSE msgs

timezone_argument(msgs, node, name) ==
    IF name \in {"datetime", "now", "fromtimestamp", "astimezone"}
    THEN IF ~any_keyword(node.keywords, {"tz", "tzinfo"})
         THEN IF ~any_attribute(node.args)
              THEN add_message(msgs, "timezone-no-argument", node, <<name>>)
              ELSE msgs
         ELSE msgs
    ELSE msgs

naive_functions(msgs, node, name) ==
    IF name \in {"today", "utcnow", "utcfromtimestamp", "utctimetuple", "time"}
    THEN add_message(msgs, "naive-datetime-call", node, <<name>>)
    ELSE msgs

\* The three rules, in the order visit_call applies them to a resolved name
call_rules(msgs, node, name) ==
    naive_functions(
        timezone_argument(
            timedelta_with_keywords(msgs, node, name), node, name),
        node, name)

\* visit_call: the name is func.name of a FunctionDef callee, func.attrname
\* of an Attribute callee; every other callee reaches "assert False".  (With
\* assertions compiled out the read of the unbound name raises instead: the
\* callback ends in an exception either way.)
visit_call(msgs, node) ==
    LET func == node.func IN
    IF func.kind = "FunctionDef" /\ func.name # NoName
    THEN Return(call_rules(msgs, node, func.name))
    ELSE IF func.kind = "Attribute" /\ func.name # NoName
    THEN Return(call_rules(msgs, node, func.name))
    ELSE Raise("AssertionError", msgs)

----------------------------------------------------------------------------
(* Statements and assignment targets. *)

\* What assigned_var.inferred() gives: it raises InferenceError, or it
\* returns the list of the inferred values.
Inference(raises, values) == [raises |-> raises, values |-> values]

\* An inferred value: an instance of the class named qname, or Uninferable
Instance(name) == [kind |-> "Instance", qname |-> name]
Uninferable == [kind |-> "Uninferable", qname |-> NoName]

\* value.qname(): Uninferable answers every method call with itself, which
\* equals no string
qname(value) ==
    IF value.kind = "Uninferable" THEN "Uninferable" ELSE value.qname

\* the variable the modelled assignments assign to, and an unrelated one
AssignedName == "a"
OtherName == "b"

\* An assignment target: an AssignName (x = ...), an AssignAttr (o.x = ...)
\* or a Tuple (x, y = ...)
Target(kind, inferred) ==
    [kind |-> kind, name |-> AssignedName, inferred |-> inferred]

\* A statement node.  Only Assign, Expr and Return nodes have a field named
\* value (see HasValue); targets is empty except for Assign.
Stmt(kind, targets, value) ==
    [kind |-> kind, targets |-> targets, value |-> value]

Assign(target, value) == Stmt("Assign", <<target>>, value)
ExprStmt(value) == Stmt("Expr", <<>>, value)
ReturnStmt(value) == Stmt("Return", <<>>, value)
Pass == Stmt("Pass", <<>>, NoValue)
Import == Stmt("Import", <<>>, NoValue)
\* Python's None, the answer of next_sibling() for the last statement
NoStmt == Stmt("None", <<>>, NoValue)

\* whether reading stmt.value finds the attribute
HasValue(stmt) == stmt.kind \in {"Assign", "Expr", "Return"}

\* assigned_var.next_sibling(): the statement after the assignment the
\* target belongs to, in the same block, or None
next_sibling(blk, i) == IF i < Len(blk) THEN blk[i + 1] ELSE NoStmt

----------------------------------------------------------------------------
(* The assignment rule. *)

\* A variant of naive_properties_methods_replace that takes the next
\* statement for a repair only when replace is called on the assigned
\* variable.
naive_properties_methods_replace_receiver(msgs, blk, i, assigned_value) ==
    LET node == blk[i]
        next_node == next_sibling(blk, i)
    IN
    IF next_node # NoStmt
    THEN IF ~HasValue(next_node)
         THEN Raise("AttributeError", msgs)
         ELSE IF /\ next_node.value.kind = "Call"
                 /\ next_node.value.func.kind = "Attribute"
                 /\ next_node.value.func.name = "replace"
                 /\ next_node.value.func.expr = node.targets[1].name
         THEN IF /\ ~any_keyword(next_node.value.keywords, {"tzinfo"})
                 /\ ~any_attribute(next_node.value.args)
              THEN Return(add_message(msgs, "timezone-no-argument",
                                      next_node.value, <<assigned_value>>))
              ELSE Return(msgs)
         ELSE Return(add_message(msgs, "naive-datetime-no-timezone",
                                 node, <<assigned_value>>))
    ELSE Return(add_message(msgs, "naive-datetime-no-timezone",
                            node, <<assigned_value>>))

\* A variant of naive_properties_methods_replace that accepts the keywords
\* timezone_argument accepts (tz as well as tzinfo) on the replace call.
naive_properties_methods_replace_tz(msgs, blk, i, assigned_value) ==
    LET node == blk[i]
        next_node == next_sibling(blk, i)
    IN
    IF next_node # NoStmt
    THEN IF ~HasValue(next_node)
         THEN Raise("AttributeError", msgs)
         ELSE IF /\ next_node.value.kind = "Call"
                 /\ next_node.value.func.kind = "Attribute"
                 /\ next_node.value.func.name = "replace"
         THEN IF /\ ~any_keyword(next_node.value.keywords, {"tz", "tzinfo"})
                 /\ ~any_attribute(next_node.value.args)
              THEN Return(add_message(msgs, "timezone-no-argument",
                                      next_node.value, <<assigned_value>>))
              ELSE Return(msgs)
         ELSE Return(add_message(msgs, "naive-datetime-no-timezone",
                                 node, <<assigned_value>>))
    ELSE Return(add_message(msgs, "naive-datetime-no-timezone",
                            node, <<assigned_value>>))

naive_properties_methods_replace(msgs, blk, i, assigned_value) ==
    LET node == blk[i]
        next_node == next_sibling(blk, i)
    IN
    IF next_node # NoStmt
    THEN IF ~HasValue(next_node)
         THEN Raise("AttributeError", msgs)
         ELSE IF /\ next_node.value.kind = "Call"
                 /\ next_node.value.func.kind = "Attribute"
                 /\ next_node.value.func.name = "replace"
         THEN IF /\ ~any_keyword(next_node.value.keywords, {"tzinfo"})
                 /\ ~any_attribute(next_node.value.args)
              THEN Return(add_message(msgs, "timezone-no-argument",
                                      next_node.value, <<assigned_value>>))
              ELSE Return(msgs)
         ELSE Return(add_message(msgs, "naive-datetime-no-timezone",
                                 node, <<assigned_value>>))
    ELSE Return(add_message(msgs, "naive-datetime-no-timezone",
                            node, <<assigned_value>>))

visit_assign(msgs, blk, i) ==
    LET node == blk[i]
        assigned_var == node.targets[1]
        assigned_value == node.value
    IN
    IF assigned_var.kind # "AssignName" THEN Return(msgs)
    ELSE IF assigned_var.inferred.raises THEN Raise("InferenceError", msgs)
    ELSE IF assigned_var.inferred.values = <<>> THEN Raise("IndexError", msgs)
    ELSE IF qname(assigned_var.inferred.values[1])
                \notin {"datetime.datetime", "datetime.time"}
    THEN Return(msgs)
    ELSE
    LET r1 == IF /\ assigned_value.kind = "Attribute"
                 /\ assigned_value.attrname \in {"min", "max"}
              THEN naive_properties_methods_replace(
                       msgs, blk, i, assigned_value.attrname)
              ELSE Return(msgs)
    IN
    IF r1.outcome # "ok" THEN r1
    ELSE IF assigned_value.kind # "Call" THEN r1
    ELSE IF assigned_value.func.kind # "Attribute"
    THEN Raise("AssertionError", r1.msgs)
    ELSE IF assigned_value.func.name \in {"fromordinal", "fromisocalendar"}
    THEN naive_properties_methods_replace(
             r1.msgs, blk, i, assigned_value.func.name)
    ELSE r1

----------------------------------------------------------------------------
(* The inputs of visit_assign: an assignment, alone or followed by one      *)
(* statement.                                                              *)

InferredValues ==
    {Instance(q) : q \in {"datetime.datetime", "datetime.time", "builtins.int"}}
        \cup {Uninferable}

Inferences ==
    {Inference(TRUE, <<>>)} \cup {Inference(FALSE, <<v>>) : v \in InferredValues}

Targets ==
    {Target("AssignName", inf) : inf \in Inferences}
        \cup {Target(k, Inference(FALSE, <<Uninferable>>)) :
                k \in {"AssignAttr", "Tuple"}}

AssignFuncs ==
    {Func("Attribute", n) : n \in {"fromordinal", "fromisocalendar", "now"}}
        \cup {Func("Name", "datetime"), Func("Subscript", NoName)}

AssignValues ==
    {Const, Name} \cup {Attribute(a) : a \in {"min", "max", "resolution"}}
        \cup {Call(f, <<"Const">>, <<>>) : f \in AssignFuncs}

Assigns == {Assign(t, v) : t \in Targets, v \in AssignValues}

SiblingFuncs ==
    {FuncOn("Attribute", "replace", r) : r \in {AssignedName, OtherName}}
        \cup {Func("Name", "replace"),
              FuncOn("Attribute", "astimezone", AssignedName)}

SiblingCalls ==
    {Call(f, a, k) : f \in SiblingFuncs, a \in ArgLists, k \in KeywordLists}

Siblings ==
    {Pass, Import, ReturnStmt(NoValue), ExprStmt(Const)}
        \cup {ExprStmt(c) : c \in SiblingCalls}
        \cup {Assign(Target("AssignName",
                            Inference(FALSE, <<Instance("datetime.datetime")>>)), c) :
                c \in SiblingCalls}

AssignBlocks ==
    {<<a>> : a \in Assigns} \cup {<<a, s>> : a \in Assigns, s \in Siblings}

----------------------------------------------------------------------------
(* One callback at a time, as the tests drive the checker: each callback   *)
(* runs on a linter with no messages recorded, and the messages it added   *)
(* are released before the next one.                                       *)

Init ==
    /\ block = <<>>
    /\ index = 0
    /\ visitor = "none"
    /\ messages = <<>>
    /\ outcome = "ok"
    /\ pass = 1
    /\ step = 1
    /\ mark = 0

VisitCall ==
    /\ visitor = "none"
    /\ \E c \in Calls :
        LET r == visit_call(messages, c) IN
        /\ block' = <<ExprStmt(c)>>
        /\ index' = 1
        /\ visitor' = "visit_call"
        /\ messages' = r.msgs
        /\ outcome' = r.outcome
    /\ UNCHANGED <<pass, step, mark>>

VisitAssign ==
    /\ visitor = "none"
    /\ \E blk \in AssignBlocks :
        LET r == visit_assign(messages, blk, 1) IN
        /\ block' = blk
        /\ index' = 1
        /\ visitor' = "visit_assign"
        /\ messages' = r.msgs
        /\ outcome' = r.outcome
    /\ UNCHANGED <<pass, step, mark>>

\* the end of "with self.assertAddsMessages(...)": the recorded messages
\* are taken from the linter
Release ==
    /\ visitor # "none"
    /\ block' = <<>>
    /\ index' = 0
    /\ visitor' = "none"
    /\ messages' = <<>>
    /\ outcome' = "ok"
    /\ UNCHANGED <<pass, step, mark>>

Next == VisitCall \/ VisitAssign \/ Release

Spec == Init /\ [][Next]_vars

----------------------------------------------------------------------------
(* The whole rule set run twice over one unchanged block, as the linter's  *)
(* tree walk runs it: the messages of both passes accumulate in the        *)
(* linter.                                                                 *)

WalkArgs == {a \in ArgLists : \A i \in 1..Len(a) : a[i] = "Const"}

WalkCalls ==
    {Call(f, a, <<>>) :
        f \in {Func("Attribute", "timedelta"), Func("Attribute", "now"),
               Func("Attribute", "today")},
        a \in WalkArgs}
        \cup {Call(FuncOn("Attribute", "replace", AssignedName), <<>>, k) :
                k \in {<<>>, <<"tzinfo">>}}
        \cup {Call(Func("Name", "timedelta"), <<"Const">>, <<>>)}

WalkStmts ==
    {ExprStmt(c) : c \in WalkCalls}
        \cup {Assign(Target("AssignName",
                            Inference(FALSE, <<Instance("datetime.datetime")>>)), v) :
                v \in {Attribute("min"),
                       Call(Func("Attribute", "fromordinal"), <<"Const">>, <<>>)}}
        \cup {Assign(Target("AssignName", Inference(TRUE, <<>>)), Name), Pass}

Trees == UNION {[1..k -> WalkStmts] : k \in 1..MaxStmts}

\* The callbacks the tree walk makes over a block, in order: a statement is
\* visited before its children, so for each statement visit_assign if it is
\* an Assign, then visit_call if its value is a Call.
RECURSIVE Schedule(_, _)
Schedule(blk, i) ==
    IF i > Len(blk) THEN <<>>
    ELSE (IF blk[i].kind = "Assign"
          THEN <<[visitor |-> "visit_assign", index |-> i]>> ELSE <<>>)
         \o (IF HasValue(blk[i]) /\ blk[i].value.kind = "Call"
             THEN <<[visitor |-> "visit_call", index |-> i]>> ELSE <<>>)
         \o Schedule(blk, i + 1)

InitWalk ==
    /\ block \in Trees
    /\ index = 0
    /\ visitor = "none"
    /\ messages = <<>>
    /\ outcome = "ok"
    /\ pass = 1
    /\ step = 1
    /\ mark = 0

\* the pass under way has a callback left to make
Walking ==
    /\ pass \in {1, 2}
    /\ outcome = "ok"
    /\ step <= Len(Schedule(block, 1))

WalkAssign ==
    /\ Walking
    /\ Schedule(block, 1)[step].visitor = "visit_assign"
    /\ LET i == Schedule(block, 1)[step].index
           r == visit_assign(messages, block, i)
       IN /\ index' = i
          /\ messages' = r.msgs
          /\ outcome' = r.outcome
    /\ visitor' = "visit_assign"
    /\ step' = step + 1
    /\ UNCHANGED <<block, pass, mark>>

WalkCall ==
    /\ Walking
    /\ Schedule(block, 1)[step].visitor = "visit_call"
    /\ LET i == Schedule(block, 1)[step].index
           r == visit_call(messages, block[i].value)
       IN /\ index' = i
          /\ messages' = r.msgs
          /\ outcome' = r.outcome
    /\ visitor' = "visit_call"
    /\ step' = step + 1
    /\ UNCHANGED <<block, pass, mark>>

\* A pass ends when every callback was made, or with the first exception
\* that leaves a callback.
EndPass ==
    /\ pass \in {1, 2}
    /\ ~Walking
    /\ pass' = pass + 1
    /\ mark' = IF pass = 1 THEN Len(messages) ELSE mark
    /\ step' = 1
    /\ index' = 0
    /\ visitor' = "none"
    /\ outcome' = "ok"
    /\ UNCHANGED <<block, messages>>

NextWalk == WalkAssign \/ WalkCall \/ EndPass

SpecWalk == InitWalk /\ [][NextWalk]_vars

----------------------------------------------------------------------------
(* Vocabulary of the properties. *)

\* the node the last callback was given
VisitedCall == block[index].value
VisitedAssign == block[index]

\* The call target of the specification: the bare function name, or the
\* attribute name of a dotted access
HasTarget(c, names) ==
    c.func.kind \in {"Name", "Attribute"} /\ c.func.name \in names

\* the messages of one rule, in the order recorded
OfRule(msgs, id) == SelectSeq(msgs, LAMBDA m : m.msg_id = id)
Count(msgs, id) == Len(OfRule(msgs, id))

\* one message, as the tests compare it
Message(id, node, args) == [msg_id |-> id, node |-> node, args |-> args]

\* whether a call carries a timezone in the checker's sense
HasTimezone(c, names) == any_keyword(c.keywords, names) \/ any_attribute(c.args)

\* The assignment is one the assignment rule tracks: an assigned name of
\* inferred type datetime.datetime or datetime.time
TrackedType(a) ==
    /\ a.targets[1].kind = "AssignName"
    /\ ~a.targets[1].inferred.raises
    /\ a.targets[1].inferred.values # <<>>
    /\ qname(a.targets[1].inferred.values[1])
            \in {"datetime.datetime", "datetime.time"}

\* The right-hand side is one of the four tracked shapes: X.min, X.max,
\* X.fromordinal(...), X.fromisocalendar(...)
TrackedShape(v) ==
    \/ v.kind = "Attribute" /\ v.attrname \in {"min", "max"}
    \/ /\ v.kind = "Call"
       /\ v.func.kind = "Attribute"
       /\ v.func.name \in {"fromordinal", "fromisocalendar"}

MatchedName(v) == IF v.kind = "Attribute" THEN v.attrname ELSE v.func.name

\* the statement is a .replace(...) call statement
IsReplaceCall(stmt) ==
    /\ HasValue(stmt)
    /\ stmt.value.kind = "Call"
    /\ stmt.value.func.kind = "Attribute"
    /\ stmt.value.func.name = "replace"

----------------------------------------------------------------------------
(* The properties. *)

\* C1: a call to timedelta with n >= 1 positional arguments gets the
\* timedelta-no-keyword-args diagnostic exactly once, whatever n is, and no
\* callback emits more than one diagnostic of one rule for the node it visits.
C1_TimedeltaPositionalOnce ==
    /\ (/\ visitor = "visit_call"
        /\ HasTarget(VisitedCall, {"timedelta"})
        /\ Len(VisitedCall.args) >= 1)
          => /\ outcome = "ok"
             /\ Count(messages, "timedelta-no-keyword-args") = 1
    /\ visitor # "none" => \A id \in MsgIds : Count(messages, id) <= 1

\* C2: a call whose callee is a bare name is resolved to that name: the
\* callback ends normally with the diagnostics of the dotted call that has
\* the same last segment and the same arguments, anchored at the call.
C2_BareNameResolved ==
    (visitor = "visit_call" /\ VisitedCall.func.kind = "Name") =>
        LET dotted == [VisitedCall EXCEPT !.func.kind = "Attribute"]
            want == visit_call(<<>>, dotted).msgs
        IN /\ outcome = "ok"
           /\ Len(messages) = Len(want)
           /\ \A i \in 1..Len(want) :
                messages[i] =
                    Message(want[i].msg_id, VisitedCall, want[i].args)

\* C3: a call to datetime, now, fromtimestamp or astimezone gets
\* timezone-no-argument, anchored at the call with the called name as the
\* only format argument, exactly when it has no tz or tzinfo keyword and no
\* positional attribute access.
C3_TimezoneRequired ==
    (/\ visitor = "visit_call"
     /\ HasTarget(VisitedCall,
                  {"datetime", "now", "fromtimestamp", "astimezone"})) =>
        OfRule(messages, "timezone-no-argument") =
            IF HasTimezone(VisitedCall, {"tz", "tzinfo"})
            THEN <<>>
            ELSE <<Message("timezone-no-argument", VisitedCall,
                           <<VisitedCall.func.name>>)>>

\* C4: a tracked naive assignment that is not immediately followed by a
\* .replace(...) call statement (no next statement, or a next statement of
\* any other kind) gets exactly one diagnostic, naive-datetime-no-timezone at
\* the assignment with the matched name.
C4_NoRepairFlagged ==
    (/\ visitor = "visit_assign"
     /\ TrackedType(VisitedAssign)
     /\ TrackedShape(VisitedAssign.value)
     /\ ~IsReplaceCall(next_sibling(block, index))) =>
        /\ outcome = "ok"
        /\ messages = <<Message("naive-datetime-no-timezone", VisitedAssign,
                                <<MatchedName(VisitedAssign.value)>>)>>

\* C5: a tracked naive assignment immediately followed by a .replace(...)
\* call statement gets timezone-no-argument at the replace call, with the
\* matched name, exactly when that call has no tzinfo keyword and no
\* positional attribute access, and nothing otherwise; never
\* naive-datetime-no-timezone.
C5_RepairChecked ==
    (/\ visitor = "visit_assign"
     /\ TrackedType(VisitedAssign)
     /\ TrackedShape(VisitedAssign.value)
     /\ IsReplaceCall(next_sibling(block, index))) =>
        LET repair == next_sibling(block, index).value IN
        /\ outcome = "ok"
        /\ messages =
            IF HasTimezone(repair, {"tzinfo"})
            THEN <<>>
            ELSE <<Message("timezone-no-argument", repair,
                           <<MatchedName(VisitedAssign.value)>>)>>

\* C5 witness: a tracked assignment followed by a replace call that carries
\* a tz keyword but no tzinfo, flagged at the replace call.
C5_Witness ==
    /\ visitor = "visit_assign"
    /\ TrackedType(VisitedAssign)
    /\ TrackedShape(VisitedAssign.value)
    /\ IsReplaceCall(next_sibling(block, index))
    /\ any_keyword(next_sibling(block, index).value.keywords, {"tz"})
    /\ Len(messages) = 1
    /\ messages[1].node = next_sibling(block, index).value

\* C6: an assignment whose target's inference fails, yields an uninferable
\* value or yields an untracked type gets no diagnostic, and the callback
\* ends normally.
C6_UntrackedSilent ==
    (/\ visitor = "visit_assign"
     /\ VisitedAssign.targets[1].kind = "AssignName"
     /\ ~TrackedType(VisitedAssign)) =>
        outcome = "ok" /\ messages = <<>>

\* C7: a call to today, utcnow, utcfromtimestamp, utctimetuple or time gets
\* naive-datetime-call exactly once, at the call with the name as the only
\* format argument, whatever its arguments; no other call gets it.
C7_NaiveProducers ==
    visitor = "visit_call" =>
        OfRule(messages, "naive-datetime-call") =
            IF HasTarget(VisitedCall,
                         {"today", "utcnow", "utcfromtimestamp",
                          "utctimetuple", "time"})
            THEN <<Message("naive-datetime-call", VisitedCall,
                           <<VisitedCall.func.name>>)>>
            ELSE <<>>

\* C8: a call to timedelta without positional arguments gets no diagnostic
\* when it has a keyword argument, and timedelta-no-keyword-args exactly
\* once when it has none.
C8_TimedeltaKeywordsOnly ==
    (/\ visitor = "visit_call"
     /\ HasTarget(VisitedCall, {"timedelta"})
     /\ VisitedCall.args = <<>>) =>
        messages =
            IF VisitedCall.keywords # <<>>
            THEN <<>>
            ELSE <<Message("timedelta-no-keyword-args", VisitedCall, <<>>)>>

\* the diagnostics of the first and of the second pass of the tree walk
FirstPass == SubSeq(messages, 1, mark)
SecondPass == SubSeq(messages, mark + 1, Len(messages))

\* C9: the checker keeps no state between callbacks: when the rule set has
\* run twice over the same unchanged block, the second pass has emitted the
\* same diagnostic sequence as the first.
C9_SecondPassIdentical ==
    pass = 3 => SecondPass = FirstPass

\* C9 witness: both passes are done, and the first one emitted diagnostics of
\* a call rule and of the assignment rule.
C9_Witness ==
    /\ pass = 3
    /\ Count(FirstPass, "timedelta-no-keyword-args") >= 1
    /\ Count(FirstPass, "naive-datetime-no-timezone") >= 1
    /\ Len(SecondPass) >= 2

\* C10: an assignment of a tracked type whose right-hand side is none of the
\* four tracked shapes gets no diagnostic, and the callback ends normally.
C10_OtherShapeSilent ==
    (/\ visitor = "visit_assign"
     /\ TrackedType(VisitedAssign)
     /\ ~TrackedShape(VisitedAssign.value)) =>
        outcome = "ok" /\ messages = <<>>

\* The block with the receiver of the next statement's call exchanged
\* (assigned variable <-> unrelated variable) and, if rebind, the next
\* statement exchanged between a bare call statement and an assignment of
\* the call's result.
Twin(blk, rebind) ==
    LET call == [blk[2].value EXCEPT
                    !.func.expr = IF @ = AssignedName
                                  THEN OtherName ELSE AssignedName]
    IN <<blk[1],
         IF rebind = (blk[2].kind = "Expr")
         THEN Assign(Target("AssignName",
                            Inference(FALSE, <<Instance("datetime.datetime")>>)),
                     call)
         ELSE ExprStmt(call)>>

\* a diagnostic of the twin block, anchored at the node of blk in the same
\* place
Untwin(blk, twin, m) ==
    [m EXCEPT !.node = IF @ = twin[2].value THEN blk[2].value
                       ELSE IF @ = twin[2] THEN blk[2]
                       ELSE @]

\* C11: the verdict of visit_assign does not depend on the receiver of the
\* following .replace(...) call nor on whether its result is bound: the
\* block that differs only there ends the same way with the same
\* diagnostics in the same places, so a tracked naive assignment to a
\* followed by b.replace(tzinfo=X) gets no diagnostic.
C11_ReceiverIgnored ==
    (/\ visitor = "visit_assign"
     /\ IsReplaceCall(next_sibling(block, index))) =>
        /\ \A rebind \in BOOLEAN :
            LET twin == Twin(block, rebind)
                r == visit_assign(<<>>, twin, 1)
            IN /\ outcome = r.outcome
               /\ Len(messages) = Len(r.msgs)
               /\ \A i \in 1..Len(messages) :
                    messages[i] = Untwin(block, twin, r.msgs[i])
        /\ (/\ TrackedType(VisitedAssign)
            /\ TrackedShape(VisitedAssign.value)
            /\ next_sibling(block, index).value.func.expr = OtherName
            /\ any_keyword(next_sibling(block, index).value.keywords,
                           {"tzinfo"}))
              => outcome = "ok" /\ messages = <<>>

\* C11 witness: a tracked naive assignment to a followed by the statement
\* b.replace(tzinfo=X), ended normally with no diagnostic.
C11_Witness ==
    /\ visitor = "visit_assign"
    /\ TrackedType(VisitedAssign)
    /\ TrackedShape(VisitedAssign.value)
    /\ IsReplaceCall(next_sibling(block, index))
    /\ next_sibling(block, index).kind = "Expr"
    /\ next_sibling(block, index).value.func.expr = OtherName
    /\ next_sibling(block, index).value.keywords = <<"tzinfo">>
    /\ outcome = "ok"
    /\ messages = <<>>

====
